---- MODULE Spec2Model ----
(***************************************************************************)
(* State-machine model of the WhatsApp Pro Bot: the in-memory user store   *)
(* (services/userDb.js), the payment gate (middleware/paymentGate.js), the *)
(* command router (handlers/commandHandler.js) and the messages.upsert     *)
(* callback that feeds it (index.js).                                      *)
(*                                                                         *)
(* Texts are sequences of one-character strings, so that trim, split,      *)
(* toLowerCase, includes and startsWith are computed as JavaScript         *)
(* computes them.  null is the empty tuple and a present value x is <<x>>. *)
(***************************************************************************)
EXTENDS Integers, Sequences, FiniteSets, TLC

\* ------------------------------------------------------------------ bounds
MaxClock == 1      \* the clock read by new Date() runs over 0..MaxClock
MaxCalls == 3      \* store API calls recorded by SpecStore
MaxMessages == 2   \* inbound messages delivered in a run of the other scenarios
MaxTraced == 3     \* inbound messages delivered under SpecTraced, over all events
MaxEvents == 3     \* connection.update events handled under SpecConn

\* ------------------------------------------------------------ optional values
Null == <<>>
Some(x) == <<x>>

\* ------------------------------------------------------------------ strings
Upper == <<"A","B","C","D","E","F","G","H","I","J","K","L","M",
           "N","O","P","Q","R","S","T","U","V","W","X","Y","Z">>
Lower == <<"a","b","c","d","e","f","g","h","i","j","k","l","m",
           "n","o","p","q","r","s","t","u","v","w","x","y","z">>

IsSpace(c) == c \in {" ", "\t", "\n"}

SetMin(S) == CHOOSE x \in S : \A y \in S : x <= y
SetMax(S) == CHOOSE x \in S : \A y \in S : x >= y

\* String.prototype.trim
trim(s) ==
  LET keep == {i \in 1..Len(s) : ~IsSpace(s[i])}
  IN  IF keep = {} THEN <<>> ELSE SubSeq(s, SetMin(keep), SetMax(keep))

\* String.prototype.split(/\s+/): the pieces between maximal whitespace runs
RECURSIVE splitFrom(_, _, _, _)
splitFrom(s, i, cur, acc) ==
  IF i > Len(s) THEN Append(acc, cur)
  ELSE IF IsSpace(s[i])
       THEN LET rest == {j \in i..Len(s) : ~IsSpace(s[j])}
                nxt  == IF rest = {} THEN Len(s) + 1 ELSE SetMin(rest)
            IN  splitFrom(s, nxt, <<>>, Append(acc, cur))
       ELSE splitFrom(s, i + 1, Append(cur, s[i]), acc)

split(s) == splitFrom(s, 1, <<>>, <<>>)

\* the lower-case letter of each upper-case letter
LowerOf == [c \in {Upper[i] : i \in 1..Len(Upper)} |->
              Lower[CHOOSE i \in 1..Len(Upper) : Upper[i] = c]]

lowerChar(c) == IF c \in DOMAIN LowerOf THEN LowerOf[c] ELSE c

\* String.prototype.toLowerCase
toLowerCase(s) == [i \in 1..Len(s) |-> lowerChar(s[i])]

\* String.prototype.includes, for a one-character needle
includes(s, c) == \E i \in 1..Len(s) : s[i] = c

\* String.prototype.startsWith, for a one-character prefix
startsWith(s, c) == Len(s) >= 1 /\ s[1] = c

\* JavaScript truthiness of a string-or-undefined/null value
Truthy(v) == v # Null /\ v[1] # <<>>

\* the command words of the router's switch
cmdStart    == <<"/","s","t","a","r","t">>
cmdHelp     == <<"/","h","e","l","p">>
cmdStatus   == <<"/","s","t","a","t","u","s">>
cmdPremium  == <<"/","p","r","e","m","i","u","m">>
cmdActivate == <<"/","a","c","t","i","v","a","t","e">>
cmdAdmin    == <<"/","a","d","m","i","n">>

\* ------------------------------------------------------------------ inputs
ADMIN_JID == "15550000000@s.whatsapp.net"
Jids == {ADMIN_JID, "15551234567@s.whatsapp.net"}

mailAB   == <<"a","@","b",".","c","o","m">>
mailCD   == <<"c","@","d",".","i","o">>
wExtra   == <<"e","x","t","r","a">>
wNoMail  == <<"n","o","t","-","a","n","-","e","m","a","i","l">>
sp       == <<" ">>

RoutedTexts ==
  { cmdStart, cmdHelp, cmdStatus, cmdPremium, cmdAdmin, cmdActivate,
    <<"/","S","t","a","t","u","s">>,
    cmdPremium \o <<" ","\n">>,
    <<"/","A","D","M","I","N">> \o sp \o wExtra,
    cmdActivate \o sp \o mailAB,
    <<"/","A","c","t","i","v","a","t","e">> \o <<" ","\t">> \o mailCD,
    cmdActivate \o sp \o mailAB \o sp \o wExtra,
    cmdActivate \o sp \o wNoMail,
    cmdActivate \o sp \o wNoMail \o sp \o mailAB,
    <<"/","x","y","z">>,
    <<"/">> \o sp \o <<"s","t","a","r","t">>,
    cmdStart \o <<"x">> }

UnroutedTexts == { <<>>, <<"h","i">>, sp \o cmdStart }

\* ------------------------------------------------------------- user store
VARIABLES
  users,     \* userDb.js `users`: a Map from jid to user record
  clock,     \* the wall clock that new Date() reads
  calls,     \* SpecStore: the store API calls made so far, oldest first
  tasks,     \* per running messages.upsert callback: its position and locals
  delivered, \* number of inbound messages delivered so far, over all events
  mails,     \* sendWelcomeEmail calls whose sendMail has not settled yet
  scenario,  \* what the host delivers in this run, and how (fixed at the start)
  seen,      \* in a traced run: what an observer has noted of the run so far
  conn       \* the process and its WhatsApp sessions (see Connected)

vars == <<users, clock, calls, tasks, delivered, mails, scenario, seen, conn>>

\* a default record that starts out Pro
DefaultUserPro(jid) == [jid |-> jid, isPro |-> TRUE, email |-> Null, upgradedAt |-> Null]

\* userDb.js:37  the default record of getUser
DefaultUser(jid) == [jid |-> jid, isPro |-> FALSE, email |-> Null, upgradedAt |-> Null]

\* userDb.js:26  the record seeded for a configured initial Pro user
SeedUser(jid, now) == [jid |-> jid, isPro |-> TRUE, email |-> Null, upgradedAt |-> Some(now)]

\* Map.prototype.set
MapSet(u, jid, rec) == [j \in DOMAIN u \cup {jid} |-> IF j = jid THEN rec ELSE u[j]]

\* getUser that stores the default record without looking for an existing one
getUserStoreReset(u, jid) == MapSet(u, jid, DefaultUser(jid))

\* getUser: the store after the call (a default record is created when absent)
getUserStore(u, jid) == IF jid \in DOMAIN u THEN u ELSE MapSet(u, jid, DefaultUser(jid))

\* getUser: the record returned
getUser(u, jid) == getUserStore(u, jid)[jid]

\* isProUser deciding by the upgrade date instead of the isPro flag
isProUserByDate(u, jid) == getUser(u, jid).upgradedAt # Null

\* isProUser: the value returned (the store after the call is getUserStore)
isProUser(u, jid) == getUser(u, jid).isPro = TRUE

\* upgradeUserToPro without the line that stores the email
upgradeUserToProNoEmail(u, jid, email, now) ==
  LET user == getUser(u, jid)
      up   == [user EXCEPT !.isPro = TRUE, !.upgradedAt = Some(now)]
  IN  MapSet(getUserStore(u, jid), jid, up)

\* upgradeUserToPro without the line that sets the upgrade date
upgradeUserToProNoDate(u, jid, email, now) ==
  LET user == getUser(u, jid)
      up   == [user EXCEPT !.isPro = TRUE,
                           !.email = IF Truthy(email) THEN email ELSE @]
  IN  MapSet(getUserStore(u, jid), jid, up)

\* upgradeUserToPro that assigns the email argument whatever it is
upgradeUserToProAnyEmail(u, jid, email, now) ==
  LET user == getUser(u, jid)
      up   == [user EXCEPT !.isPro = TRUE,
                           !.upgradedAt = Some(now),
                           !.email = email]
  IN  MapSet(getUserStore(u, jid), jid, up)

\* upgradeUserToPro: the store after the call
upgradeUserToPro(u, jid, email, now) ==
  LET user == getUser(u, jid)
      up   == [user EXCEPT !.isPro = TRUE,
                           !.upgradedAt = Some(now),
                           !.email = IF Truthy(email) THEN email ELSE @]
  IN  MapSet(getUserStore(u, jid), jid, up)

\* revokeProAccess that puts the default record back
revokeProAccessReset(u, jid) == MapSet(getUserStore(u, jid), jid, DefaultUser(jid))

\* revokeProAccess: the store after the call
revokeProAccess(u, jid) ==
  LET user == getUser(u, jid)
  IN  MapSet(getUserStore(u, jid), jid, [user EXCEPT !.isPro = FALSE])

\* listAllUsers that lists the Pro records only
listAllUsersProOnly(u) == {u[j] : j \in {k \in DOMAIN u : u[k].isPro}}

\* listAllUsers: the records of the store (each carries its own jid)
listAllUsers(u) == {u[j] : j \in DOMAIN u}

\* the stores the seed loop can build from config.initialProUsers
SeededStores == { [j \in S |-> SeedUser(j, 0)] : S \in SUBSET Jids }

\* ------------------------------------------------- messages.upsert callbacks
\* the callback invocations that may be in progress at the same time
HandlerIds == {"h1", "h2"}

\* a slot with no invocation in progress; the fields of a running one are
\*   pc     where the invocation is suspended:
\*            "loop"    at the top of the for loop, `left` messages to go
\*            "send"    in a command, awaiting sock.sendMessage
\*            "gate"    in a command, awaiting requirePro, which returned false
\*            "errSend" in the catch block, awaiting the generic error reply
\*            "done"    awaiting handleMessage (or the catch block), now settled
\*   jid, text  the sender and text handed to handleMessage
\*   command, args  handleMessage's split of the trimmed text
\*   cont   what the command does once the awaited send has succeeded
\*   gate   outcome of the command's requirePro call
\*   pre    the store before the command's first step
\*   post   the store as the command's latest step left it
\*   sent   the sendMessage calls made by handleMessage for this command
\*   mailed the sendWelcomeEmail calls made by this command
\*   failed an awaited sendMessage call of the command rejected
\*   threw  handleMessage rejected
\*   boundary  the sendMessage calls made by the catch block
\*   seq    the command's place in the order in which the commands now in
\*          progress were routed
IdleTask ==
  [pc |-> "idle", left |-> 0, jid |-> "", text |-> <<>>,
   command |-> <<>>, args |-> <<>>, cont |-> "",
   gate |-> "none", pre |-> <<>>, post |-> <<>>, sent |-> <<>>,
   mailed |-> <<>>, failed |-> FALSE, threw |-> FALSE, boundary |-> <<>>,
   seq |-> 0]

\* the callback is in a command: handleMessage was entered and its effects are
\* still on record
InCommand(t) == t.pc \in {"send", "gate", "errSend", "done"}

\* ---------------------------------------------------------------- scenarios
\* A run is one of four scenarios, which differ in what the host delivers:
\*   "serial"       any message of Messages, MaxMessages in all, one
\*                  messages.upsert callback at a time
\*   "traced"       the messages of TracedMessages, MaxTraced in all, one
\*                  callback at a time
\*   "overlapping"  the messages of TracedMessages, MaxMessages in all, and
\*                  a second callback may start while the first is suspended
\*   "racing"       the messages of RacingMessages, MaxMessages in all,
\*                  overlapping callbacks, and revokeProAccess is never called
\* In all but the first an observer notes, in `seen`:
\*   gate[jid]   what each requirePro(jid) so far decided, oldest first:
\*               "pass" (the identity was Pro) or "block"
\*   caughtAt    the value of `delivered` when a catch block last ran (0: never)
\*   mailErrors  the rejections of sendMail logged by handleActivate's .catch
\*   activations the /activate commands with a valid email routed so far, in
\*               the order of routing: sender, email, whether the sender was
\*               Pro, the reply the command sent and whether it made the
\*               sender Pro
\*   mailCalls   the sendWelcomeEmail calls made so far, oldest first
Traced == scenario # "serial"

Unseen == [gate |-> [j \in Jids |-> <<>>], caughtAt |-> 0, mailErrors |-> 0,
           activations |-> <<>>, mailCalls |-> <<>>]

\* the observer's notes after this step
Observe(notes) == seen' = IF Traced THEN notes ELSE seen

\* ------------------------------------------------------------------ clock
\* time passes between any two steps of the program
Tick ==
  /\ clock < MaxClock
  /\ clock' = clock + 1
  /\ UNCHANGED <<users, calls, tasks, delivered, mails, scenario, conn, seen>>

\* ------------------------------------------------- SpecStore: the store API
\* the email arguments a caller may pass to upgradeUserToPro
EmailArgs == {Null, Some(<<>>), Some(mailAB), Some(mailCD)}

Call(op, jid, email, post, ret) ==
  /\ Len(calls) < MaxCalls
  /\ users' = post
  /\ calls' = Append(calls, [op |-> op, jid |-> jid, email |-> email,
                             pre |-> users, post |-> post, ret |-> ret])
  /\ UNCHANGED <<clock, tasks, delivered, mails, scenario, conn, seen>>

CallGetUser(jid) ==
  Call("getUser", jid, Null, getUserStore(users, jid), getUser(users, jid))

CallIsProUser(jid) ==
  Call("isProUser", jid, Null, getUserStore(users, jid), isProUser(users, jid))

CallUpgradeUserToPro(jid, email) ==
  LET post == upgradeUserToPro(users, jid, email, clock)
  IN  Call("upgradeUserToPro", jid, email, post, post[jid])

CallRevokeProAccess(jid) ==
  LET post == revokeProAccess(users, jid)
  IN  Call("revokeProAccess", jid, Null, post, post[jid])

CallListAllUsers ==
  Call("listAllUsers", "", Null, users, listAllUsers(users))

\* the state once the modules are loaded: the store is seeded, nothing has run
\* index.js:16  the disconnect codes of the WhatsApp library used below
DisconnectReason ==
  [loggedOut |-> 401, connectionClosed |-> 428, restartRequired |-> 515]

\* index.js:170-180  the process once the bootstrap has awaited startBot():
\*   running    the process has not exited
\*   sockets    sockets made by startBot, each with the connection.update
\*              listener attached
\*   timers     setTimeout(startBot, 3000) timers that have not fired yet
\*   starting   startBot calls made by a timer that are at one of their awaits
\*   log        the connection.update events handled so far, oldest first:
\*              the connection field, the status code the handler computed
\*              (Null when it computed none), whether it set a timer for
\*              startBot and whether it called process.exit
Connected ==
  [running |-> TRUE, sockets |-> 1, timers |-> 0, starting |-> 0, log |-> <<>>]

Loaded ==
  /\ conn = Connected
  /\ users \in SeededStores
  /\ clock = 0
  /\ calls = <<>>
  /\ tasks = [h \in HandlerIds |-> IdleTask]
  /\ delivered = 0
  /\ mails = 0
  /\ seen = Unseen

InitStore == Loaded /\ scenario = "serial"

NextStore ==
  \/ Tick
  \/ \E jid \in Jids : CallGetUser(jid)
  \/ \E jid \in Jids : CallIsProUser(jid)
  \/ \E jid \in Jids, email \in EmailArgs : CallUpgradeUserToPro(jid, email)
  \/ \E jid \in Jids : CallRevokeProAccess(jid)
  \/ CallListAllUsers

SpecStore == InitStore /\ [][NextStore]_vars

\* ------------------------------------------------------- Spec: the running bot
NoJid == ""   \* a missing, null or empty msg.key.remoteJid: all are falsy

\* the inbound messages of a batch: a text message from each sender for each
\* text, and the messages that exercise the other fields
Msg(f, r, c, e) == [fromMe |-> f, remoteJid |-> r, conversation |-> c, extended |-> e]

Messages ==
  { Msg(FALSE, r, Some(t), Null) : r \in Jids, t \in RoutedTexts \cup UnroutedTexts }
  \cup { Msg(TRUE, ADMIN_JID, Some(cmdAdmin), Null),
         Msg(FALSE, NoJid, Some(cmdStart), Null),
         Msg(FALSE, ADMIN_JID, Null, Null),
         Msg(FALSE, ADMIN_JID, Some(<<>>), Some(cmdStatus)),
         Msg(FALSE, ADMIN_JID, Null, Some(cmdPremium)),
         Msg(FALSE, ADMIN_JID, Some(cmdHelp), Some(<<"h","i">>)) }

\* the sender of the traced scenarios: the identity that is not the administrator
Customer == CHOOSE j \in Jids : j # ADMIN_JID

\* the inbound messages of the traced scenarios
TracedMessages ==
  { Msg(FALSE, Customer, Some(t), Null) :
      t \in {cmdStart, cmdPremium, cmdActivate \o sp \o mailAB, <<"h","i">>} }
  \cup { Msg(TRUE, ADMIN_JID, Some(cmdAdmin), Null) }

\* the inbound messages of the racing scenario: the same sender activates
\* with one email or another
RacingMessages ==
  { Msg(FALSE, Customer, Some(cmdActivate \o sp \o m), Null) : m \in {mailAB, mailCD} }

\* the messages the host may deliver in this run, and how many in all
Inbound ==
  IF scenario = "racing" THEN RacingMessages
  ELSE IF Traced THEN TracedMessages ELSE Messages
Budget == IF scenario = "traced" THEN MaxTraced ELSE MaxMessages

\* index.js:142-145  msg.message?.conversation || msg.message?.extendedTextMessage?.text || ""
MsgText(msg) ==
  IF Truthy(msg.conversation) THEN msg.conversation[1]
  ELSE IF Truthy(msg.extended) THEN msg.extended[1]
  ELSE <<>>

\* commandHandler.js:172-173  const [command, ...args] = text.trim().split(/\s+/)
CommandOf(text) == Head(split(trim(text)))
ArgsOf(text) == Tail(split(trim(text)))

\* the locals of a callback at entry to handleMessage(sock, jid, text)
Entered(h, jid, text) ==
  [IdleTask EXCEPT !.left = tasks[h].left, !.jid = jid, !.text = text,
                   !.command = CommandOf(text), !.args = ArgsOf(text),
                   !.pre = users, !.post = users,
                   !.seq = SetMax({0} \cup {tasks[g].seq : g \in HandlerIds \ {h}}) + 1]

\* reply / sock.sendMessage(jid, {text}): the call is made and awaited
reply(t, jid, kind, body, cont) ==
  [t EXCEPT !.pc = "send", !.cont = cont,
            !.sent = Append(@, [to |-> jid, kind |-> kind, body |-> body])]

\* Each handler below is the code from its entry up to its first await: the
\* store it leaves and the locals of the callback suspended at that await.

\* handleStart
handleStart(t, jid) ==
  [store |-> users, task |-> reply(t, jid, "menu", Null, "return")]

\* handleStatus
handleStatus(t, jid) ==
  LET user  == getUser(users, jid)
      tier  == IF user.isPro THEN "Pro" ELSE "Free"
      since == user.upgradedAt
  IN  [store |-> getUserStore(users, jid),
       task  |-> reply(t, jid, "status", <<tier, since>>, "return")]

\* a requirePro that decides once for each identity and keeps its decision
requireProCached(t, jid, cont) ==
  LET pro == IF seen.gate[jid] = <<>> THEN isProUser(users, jid)
             ELSE seen.gate[jid][1] = "pass"
  IN  [store |-> getUserStore(users, jid),
       task  |-> IF pro
                 THEN [t EXCEPT !.pc = "gate", !.cont = cont, !.gate = "pass"]
                 ELSE reply([t EXCEPT !.gate = "pending"], jid, "payment", Null, "blocked")]

\* requirePro: it returns false (Pro), or awaits the payment message
requirePro(t, jid, cont) ==
  [store |-> getUserStore(users, jid),
   task  |-> IF isProUser(users, jid)
             THEN [t EXCEPT !.pc = "gate", !.cont = cont, !.gate = "pass"]
             ELSE reply([t EXCEPT !.gate = "pending"], jid, "payment", Null, "blocked")]

\* handlePremium, up to the await of requirePro
handlePremium(t, jid) == requirePro(t, jid, "premium")

\* handleAdmin, up to the await of requirePro
handleAdmin(t, jid) == requirePro(t, jid, "admin")

\* handleActivate: the validation of args[0]
validEmail(args) == Len(args) >= 1 /\ args[1] # <<>> /\ includes(args[1], "@")

\* handleActivate with the record looked up before the argument is validated
handleActivateEagerLookup(t, jid, args) ==
  IF ~validEmail(args)
  THEN [store |-> getUserStore(users, jid), task |-> reply(t, jid, "usage", Null, "return")]
  ELSE IF getUser(users, jid).isPro
  THEN [store |-> getUserStore(users, jid),
        task  |-> reply(t, jid, "alreadyPro", Null, "return")]
  ELSE [store |-> upgradeUserToPro(users, jid, Some(args[1]), clock),
        task  |-> reply(t, jid, "upgraded", <<args[1]>>, "welcome")]

\* handleActivate without the already-Pro short circuit
handleActivateNoShortCircuit(t, jid, args) ==
  IF ~validEmail(args)
  THEN [store |-> users, task |-> reply(t, jid, "usage", Null, "return")]
  ELSE [store |-> upgradeUserToPro(users, jid, Some(args[1]), clock),
        task  |-> reply(t, jid, "upgraded", <<args[1]>>, "welcome")]

\* handleActivate
\* a handleActivate that awaits between its check and its write: a command
\* that arrives while another /activate of the sender is suspended has read
\* the record as it was before that one wrote it
handleActivateStaleCheck(t, jid, args) ==
  LET racing == \E g \in HandlerIds :
                  /\ tasks[g].pc = "send" /\ tasks[g].jid = jid
                  /\ tasks[g].cont = "welcome"
  IN  IF ~validEmail(args)
      THEN [store |-> users, task |-> reply(t, jid, "usage", Null, "return")]
      ELSE IF getUser(users, jid).isPro /\ ~racing
      THEN [store |-> getUserStore(users, jid),
            task  |-> reply(t, jid, "alreadyPro", Null, "return")]
      ELSE [store |-> upgradeUserToPro(users, jid, Some(args[1]), clock),
            task  |-> reply(t, jid, "upgraded", <<args[1]>>, "welcome")]

handleActivate(t, jid, args) ==
  IF ~validEmail(args)
  THEN [store |-> users, task |-> reply(t, jid, "usage", Null, "return")]
  ELSE IF getUser(users, jid).isPro
  THEN [store |-> getUserStore(users, jid),
        task  |-> reply(t, jid, "alreadyPro", Null, "return")]
  ELSE [store |-> upgradeUserToPro(users, jid, Some(args[1]), clock),
        task  |-> reply(t, jid, "upgraded", <<args[1]>>, "welcome")]

\* a mis-written switch: a case label matches any token it is a prefix of
caseMatchesPrefix(command, labels) ==
  \E w \in labels : Len(command) >= Len(w) /\ SubSeq(command, 1, Len(w)) = w

\* switch (command.toLowerCase()) { case ...: }  strict equality with a label
caseMatches(command, labels) == command \in labels

\* handleMessage, up to the first await of the handler it selects; an unknown
\* command returns at once
handleMessage(h, jid, text) ==
  LET t       == Entered(h, jid, text)
      command == toLowerCase(t.command)
      args    == t.args
  IN  CASE caseMatches(command, {cmdStart, cmdHelp}) -> handleStart(t, jid)
        [] caseMatches(command, {cmdStatus})   -> handleStatus(t, jid)
        [] caseMatches(command, {cmdPremium})  -> handlePremium(t, jid)
        [] caseMatches(command, {cmdActivate}) -> handleActivate(t, jid, args)
        [] caseMatches(command, {cmdAdmin})    -> handleAdmin(t, jid)
        [] OTHER -> [store |-> users, task |-> [t EXCEPT !.pc = "done"]]

\* handleAdmin after requirePro returned false, with the admin check left out
adminBodyNoCheck(t) ==
  LET allUsers == listAllUsers(users)
      proCount == Cardinality({u \in allUsers : u.isPro})
  IN  reply(t, t.jid, "stats",
            <<Cardinality(allUsers), proCount, Cardinality(allUsers) - proCount>>, "return")

\* handleAdmin that sends its access-denied notice to the administrator
adminBodyTellsAdmin(t) ==
  LET allUsers == listAllUsers(users)
      proCount == Cardinality({u \in allUsers : u.isPro})
  IN  IF t.jid # ADMIN_JID
      THEN reply(t, ADMIN_JID, "adminDenied", Null, "return")
      ELSE reply(t, t.jid, "stats",
                 <<Cardinality(allUsers), proCount, Cardinality(allUsers) - proCount>>, "return")

\* handleAdmin after requirePro returned false, up to its await
adminBody(t) ==
  LET allUsers == listAllUsers(users)
      proCount == Cardinality({u \in allUsers : u.isPro})
  IN  IF t.jid # ADMIN_JID
      THEN reply(t, t.jid, "adminDenied", Null, "return")
      ELSE reply(t, t.jid, "stats",
                 <<Cardinality(allUsers), proCount, Cardinality(allUsers) - proCount>>, "return")

\* handlePremium after requirePro returned false, up to its await
premiumBody(t) == reply(t, t.jid, "proZone", Null, "return")

\* the loop moves on to the next message of the batch, or the callback ends
NextMessage(t) ==
  IF t.left > 1 THEN [IdleTask EXCEPT !.pc = "loop", !.left = t.left - 1]
  ELSE IdleTask

\* index.js:129-131  a messages.upsert event with n messages starts a callback
\* (one with no messages starts a callback that returns without a step)
Upsert(h) ==
  /\ tasks[h].pc = "idle"
  /\ \E type \in {"notify", "append"}, n \in 1..(Budget - delivered) :
       /\ delivered' = delivered + n
       /\ tasks' = [tasks EXCEPT ![h] =
                      IF type # "notify" THEN IdleTask
                      ELSE [IdleTask EXCEPT !.pc = "loop", !.left = n]]
  /\ UNCHANGED <<users, clock, calls, mails, scenario, conn, seen>>

\* index.js:133-139  a message from the bot itself or without a sender is skipped
SkipMessage(h) ==
  /\ tasks[h].pc = "loop"
  /\ \E msg \in Inbound :
       /\ msg.fromMe \/ msg.remoteJid = NoJid
       /\ tasks' = [tasks EXCEPT ![h] = NextMessage(tasks[h])]
  /\ UNCHANGED <<users, clock, calls, delivered, mails, scenario, conn, seen>>

\* index.js:148  a text without the "/" prefix ends the callback
DropBatch(h) ==
  /\ tasks[h].pc = "loop"
  /\ \E msg \in Inbound :
       /\ ~msg.fromMe /\ msg.remoteJid # NoJid
       /\ ~startsWith(MsgText(msg), "/")
       /\ tasks' = [tasks EXCEPT ![h] = IdleTask]
  /\ UNCHANGED <<users, clock, calls, delivered, mails, scenario, conn, seen>>

\* the observer's notes once handleMessage has run up to its first await, r
\* being what it did: the decision of requirePro, or the /activate that got
\* past the validation of its argument
Routed(jid, r) ==
  LET t == r.task
  IN  IF t.gate # "none"
      THEN [seen EXCEPT !.gate[jid] =
              Append(@, IF t.gate = "pass" THEN "pass" ELSE "block")]
      ELSE IF toLowerCase(t.command) = cmdActivate /\ validEmail(t.args)
      THEN [seen EXCEPT !.activations =
              Append(@, [jid |-> jid, email |-> t.args[1],
                         wasPro |-> isProUser(users, jid),
                         reply |-> t.sent[1].kind,
                         upgraded |-> ~isProUser(users, jid) /\ isProUser(r.store, jid)])]
      ELSE seen

\* index.js:150-151  a command message is handed to handleMessage
Route(h) ==
  /\ tasks[h].pc = "loop"
  /\ \E msg \in Inbound :
       /\ ~msg.fromMe /\ msg.remoteJid # NoJid
       /\ startsWith(MsgText(msg), "/")
       /\ LET r == handleMessage(h, msg.remoteJid, MsgText(msg))
          IN  /\ users' = r.store
              /\ tasks' = [tasks EXCEPT ![h] = [r.task EXCEPT !.post = r.store]]
              /\ Observe(Routed(msg.remoteJid, r))
  /\ UNCHANGED <<clock, calls, delivered, mails, scenario, conn>>

\* requirePro returned false: the gated command goes on to its body
GateReturns(h) ==
  LET t == tasks[h]
  IN  /\ t.pc = "gate"
      /\ tasks' = [tasks EXCEPT ![h] =
           [(IF t.cont = "premium" THEN premiumBody(t) ELSE adminBody(t))
              EXCEPT !.post = users]]
      /\ UNCHANGED <<users, clock, calls, delivered, mails, scenario, conn, seen>>

\* the awaited sock.sendMessage resolves: the command runs on to its end
SendOk(h) ==
  LET t == tasks[h]
  IN  /\ t.pc = "send"
      /\ tasks' = [tasks EXCEPT ![h] =
           [t EXCEPT !.pc = "done",
                     !.gate = IF t.cont = "blocked" THEN "block" ELSE @,
                     !.mailed = IF t.cont = "welcome"
                                THEN Append(@, [to |-> t.args[1], jid |-> t.jid])
                                ELSE @]]
      /\ mails' = IF t.cont = "welcome" THEN mails + 1 ELSE mails
      /\ Observe(IF t.cont = "welcome"
                 THEN [seen EXCEPT !.mailCalls = Append(@, [to |-> t.args[1], jid |-> t.jid])]
                 ELSE seen)
      /\ UNCHANGED <<users, clock, calls, delivered, scenario, conn>>

\* a requirePro that catches the rejection of its payment send and returns true
SendFailsGateSwallows(h) ==
  LET t == tasks[h]
  IN  /\ t.pc = "send"
      /\ tasks' = [tasks EXCEPT ![h] =
           IF t.cont = "blocked"
           THEN [t EXCEPT !.pc = "done", !.failed = TRUE, !.gate = "block"]
           ELSE [t EXCEPT !.pc = "errSend", !.failed = TRUE, !.threw = TRUE,
                          !.boundary = Append(@, [to |-> t.jid, kind |-> "internalError", body |-> Null])]]
      /\ UNCHANGED <<users, clock, calls, delivered, mails, scenario, conn, seen>>

\* a handleActivate that starts the welcome mail before it awaits the
\* confirmation: the mail call is made although the confirmation is rejected
SendFailsButMails(h) ==
  LET t == tasks[h]
      m == [to |-> t.args[1], jid |-> t.jid]
  IN  /\ t.pc = "send"
      /\ tasks' = [tasks EXCEPT ![h] =
           [t EXCEPT !.pc = "errSend", !.failed = TRUE, !.threw = TRUE,
                     !.gate = IF t.cont = "blocked" THEN "threw" ELSE @,
                     !.mailed = IF t.cont = "welcome" THEN Append(@, m) ELSE @,
                     !.boundary = Append(@, [to |-> t.jid, kind |-> "internalError", body |-> Null])]]
      /\ mails' = IF t.cont = "welcome" THEN mails + 1 ELSE mails
      /\ Observe([seen EXCEPT !.caughtAt = delivered,
                              !.mailCalls = IF t.cont = "welcome" THEN Append(@, m) ELSE @])
      /\ UNCHANGED <<users, clock, calls, delivered, scenario, conn>>

\* the awaited sock.sendMessage rejects: handleMessage rejects and the catch
\* block of the callback sends the generic error reply
SendFails(h) ==
  LET t == tasks[h]
  IN  /\ t.pc = "send"
      /\ tasks' = [tasks EXCEPT ![h] =
           [t EXCEPT !.pc = "errSend", !.failed = TRUE, !.threw = TRUE,
                     !.gate = IF t.cont = "blocked" THEN "threw" ELSE @,
                     !.boundary = Append(@, [to |-> t.jid, kind |-> "internalError", body |-> Null])]]
      /\ Observe([seen EXCEPT !.caughtAt = delivered])
      /\ UNCHANGED <<users, clock, calls, delivered, mails, scenario, conn>>

\* a catch block whose generic error reply is awaited without .catch: when the
\* reply rejects too, the callback rejects and the rest of its batch is lost
ErrSendSettlesOrThrows(h) ==
  /\ tasks[h].pc = "errSend"
  /\ \/ tasks' = [tasks EXCEPT ![h] = [@ EXCEPT !.pc = "done"]]
     \/ tasks' = [tasks EXCEPT ![h] = IdleTask]
  /\ UNCHANGED <<users, clock, calls, delivered, mails, scenario, conn, seen>>

\* the generic error reply settles; .catch(() => {}) swallows its failure
ErrSendSettles(h) ==
  /\ tasks[h].pc = "errSend"
  /\ tasks' = [tasks EXCEPT ![h] = [@ EXCEPT !.pc = "done"]]
  /\ UNCHANGED <<users, clock, calls, delivered, mails, scenario, conn, seen>>

\* the callback resumes after the try/catch and the loop goes on
Continue(h) ==
  /\ tasks[h].pc = "done"
  /\ tasks' = [tasks EXCEPT ![h] = NextMessage(tasks[h])]
  /\ UNCHANGED <<users, clock, calls, delivered, mails, scenario, conn, seen>>

\* transporter.sendMail resolves and sendWelcomeEmail with it
MailSettles ==
  /\ mails > 0
  /\ mails' = mails - 1
  /\ UNCHANGED <<users, clock, calls, tasks, delivered, scenario, conn, seen>>

\* a .catch of handleActivate that calls sendWelcomeEmail once more
MailFailsRetries ==
  /\ mails > 0
  /\ mails' = mails
  /\ Observe([seen EXCEPT !.mailErrors = @ + 1])
  /\ UNCHANGED <<users, clock, calls, tasks, delivered, scenario, conn>>

\* transporter.sendMail rejects: sendWelcomeEmail logs the error and rethrows
\* it, and the .catch of handleActivate logs it and returns
MailFails ==
  /\ mails > 0
  /\ mails' = mails - 1
  /\ Observe([seen EXCEPT !.mailErrors = @ + 1])
  /\ UNCHANGED <<users, clock, calls, tasks, delivered, scenario, conn>>

\* revokeProAccess called from outside the command router
Revoke(jid) ==
  /\ users' = revokeProAccess(users, jid)
  /\ UNCHANGED <<clock, calls, tasks, delivered, mails, scenario, conn, seen>>

Init == InitStore

\* Spec delivers the events one after the other: a single callback runs at a time
Sequential == {"h1"}

\* the callbacks that may run in this scenario
Running == IF scenario = "overlapping" THEN HandlerIds ELSE Sequential

Next ==
  \/ Tick
  \/ \E h \in Running : Upsert(h)
  \/ \E h \in Running : SkipMessage(h)
  \/ \E h \in Running : DropBatch(h)
  \/ \E h \in Running : Route(h)
  \/ \E h \in Running : GateReturns(h)
  \/ \E h \in Running : SendOk(h)
  \/ \E h \in Running : SendFails(h)
  \/ \E h \in Running : ErrSendSettles(h)
  \/ \E h \in Running : Continue(h)
  \/ MailSettles
  \/ MailFails
  \/ \E jid \in Jids : Revoke(jid)

Spec == Init /\ [][Next]_vars

\* the traced scenario: one callback at a time, with an observer
InitTraced == Loaded /\ scenario = "traced"
SpecTraced == InitTraced /\ [][Next]_vars

\* the overlapping scenario: a callback may start while another is suspended
InitOverlapping == Loaded /\ scenario = "overlapping"
SpecOverlapping == InitOverlapping /\ [][Next]_vars

\* the racing scenario: the callbacks overlap, every message is an /activate
\* of the same sender with a valid email, and nothing calls revokeProAccess
InitRacing == Loaded /\ scenario = "racing"

NextRacing ==
  \/ Tick
  \/ \E h \in HandlerIds : Upsert(h)
  \/ \E h \in HandlerIds : Route(h)
  \/ \E h \in HandlerIds : SendOk(h)
  \/ \E h \in HandlerIds : SendFails(h)
  \/ \E h \in HandlerIds : ErrSendSettles(h)
  \/ \E h \in HandlerIds : Continue(h)
  \/ MailSettles
  \/ MailFails

SpecRacing == InitRacing /\ [][NextRacing]_vars

\* ------------------------------------------------------------ the session
\* what a connection.update event may carry in `connection`; "none" is an
\* update without that field (a qr or a receivedPendingNotifications update)
Connections == {"open", "connecting", "close", "none"}

\* what it may carry in lastDisconnect?.error: nothing, an Error that is not
\* a Boom, or the Boom the library made for a disconnect code
BoomError(code) == Some([isBoom |-> TRUE, statusCode |-> Some(code)])
PlainError == Some([isBoom |-> FALSE, statusCode |-> Null])
DisconnectErrors ==
  {Null, PlainError}
  \cup {BoomError(DisconnectReason[r]) : r \in DOMAIN DisconnectReason}

\* index.js:111  new Boom(lastDisconnect?.error)?.output?.statusCode: the
\* constructor keeps the status code of a Boom and gives any other error, and
\* no error, the code 500
statusCodeOf(error) ==
  IF error # Null /\ error[1].isBoom THEN error[1].statusCode[1] ELSE 500

\* a handler that reconnects whatever the code
shouldReconnectAlways(statusCode) == TRUE

\* index.js:112  statusCode !== DisconnectReason.loggedOut
shouldReconnect(statusCode) == statusCode # DisconnectReason.loggedOut

\* index.js:104-126  the connection.update listener of a socket
ConnectionUpdate(connection, error) ==
  /\ conn.running /\ conn.sockets >= 1
  /\ Len(conn.log) < MaxEvents
  /\ LET statusCode == statusCodeOf(error)
         entry(code, restart, exit) ==
           [connection |-> connection, statusCode |-> code,
            restart |-> restart, exit |-> exit]
     IN  conn' =
           IF connection = "open"
           THEN [conn EXCEPT !.log = Append(@, entry(Null, FALSE, FALSE))]
           ELSE IF connection = "close"
           THEN IF shouldReconnect(statusCode)
                THEN [conn EXCEPT !.timers = @ + 1,
                                  !.log = Append(@, entry(Some(statusCode), TRUE, FALSE))]
                ELSE [conn EXCEPT !.running = FALSE,
                                  !.log = Append(@, entry(Some(statusCode), FALSE, TRUE))]
           ELSE [conn EXCEPT !.log = Append(@, entry(Null, FALSE, FALSE))]
  /\ UNCHANGED <<users, clock, calls, tasks, delivered, mails, scenario, seen>>

\* index.js:120  the timer fires and calls startBot, which runs up to its
\* first await (index.js:51)
TimerFires ==
  /\ conn.running /\ conn.timers > 0
  /\ conn' = [conn EXCEPT !.timers = @ - 1, !.starting = @ + 1]
  /\ UNCHANGED <<users, clock, calls, tasks, delivered, mails, scenario, seen>>

\* index.js:58-126  startBot makes the socket and attaches its listeners
StartBotAttaches ==
  /\ conn.running /\ conn.starting > 0
  /\ conn' = [conn EXCEPT !.starting = @ - 1, !.sockets = @ + 1]
  /\ UNCHANGED <<users, clock, calls, tasks, delivered, mails, scenario, seen>>

\* index.js:51-54  an await of startBot rejects: the promise of a startBot
\* called by a timer has no handler, and the runtime either ends the process
\* or only warns, by its unhandled-rejections mode
StartBotRejects ==
  /\ conn.running /\ conn.starting > 0
  /\ \E ends \in BOOLEAN :
       conn' = [conn EXCEPT !.starting = @ - 1, !.running = ~ends]
  /\ UNCHANGED <<users, clock, calls, tasks, delivered, mails, scenario, seen>>

InitConn == Loaded /\ scenario = "serial"

NextConn ==
  \/ \E connection \in Connections, error \in DisconnectErrors :
       ConnectionUpdate(connection, error)
  \/ TimerFires
  \/ StartBotAttaches
  \/ StartBotRejects

SpecConn == InitConn /\ [][NextConn]_vars

\* ===================================================== properties: the store
\* C1: calling upgrade(id, email) twice in a row, whatever time passes between
\* the two calls, returns the same upgradedAt the second time as the first, and
\* contactEmail equal to the supplied email both times.
C1_UpgradeTwiceKeepsUpgradedAt ==
  \A i \in 1..(Len(calls) - 1) :
    LET a == calls[i]
        b == calls[i + 1]
    IN  ( /\ a.op = "upgradeUserToPro" /\ b.op = "upgradeUserToPro"
          /\ a.jid = b.jid /\ a.email = b.email /\ Truthy(a.email) )
        => /\ b.ret.upgradedAt = a.ret.upgradedAt
           /\ a.ret.email = a.email
           /\ b.ret.email = a.email

\* C10: getUser(id) for an id that has no record creates and returns the record
\* {isPro: false, email: null, upgradedAt: null}, adding exactly that one entry
\* to the store; a getUser(id) right after it returns the same record and leaves
\* the store as it is.
C10_GetCreatesDefaultOnce ==
  \A i \in 1..Len(calls) :
    LET a == calls[i]
    IN  (a.op = "getUser" /\ a.jid \notin DOMAIN a.pre)
        => /\ a.ret = [jid |-> a.jid, isPro |-> FALSE, email |-> Null, upgradedAt |-> Null]
           /\ DOMAIN a.post = DOMAIN a.pre \cup {a.jid}
           /\ a.post[a.jid] = a.ret
           /\ \A j \in DOMAIN a.pre : a.post[j] = a.pre[j]
           /\ ( (i < Len(calls) /\ calls[i + 1].op = "getUser" /\ calls[i + 1].jid = a.jid)
                => /\ calls[i + 1].ret = a.ret
                   /\ calls[i + 1].post = a.post )

\* C10 witness: an unseen id is looked up twice in a row
C10_Witness ==
  \E i \in 1..(Len(calls) - 1) :
    /\ calls[i].op = "getUser" /\ calls[i].jid \notin DOMAIN calls[i].pre
    /\ calls[i + 1].op = "getUser" /\ calls[i + 1].jid = calls[i].jid
    /\ Cardinality(DOMAIN users) = Cardinality(DOMAIN calls[i].pre) + 1

\* C12: revokeProAccess(id) leaves the identity not Pro with the email and
\* upgradedAt it had before the call (those of the default record when it had
\* no record), returns that record, and leaves every other record as it was.
C12_RevokeFrame ==
  \A i \in 1..Len(calls) :
    LET a   == calls[i]
        old == IF a.jid \in DOMAIN a.pre THEN a.pre[a.jid] ELSE DefaultUser(a.jid)
    IN  a.op = "revokeProAccess"
        => /\ a.post[a.jid].isPro = FALSE
           /\ a.post[a.jid].email = old.email
           /\ a.post[a.jid].upgradedAt = old.upgradedAt
           /\ a.ret = a.post[a.jid]
           /\ DOMAIN a.post = DOMAIN a.pre \cup {a.jid}
           /\ \A j \in DOMAIN a.pre \ {a.jid} : a.post[j] = a.pre[j]

\* C12 witness: a Pro identity with an email on record was revoked while
\* another identity had a record
C12_Witness ==
  \E i \in 1..Len(calls) :
    LET a == calls[i]
    IN  /\ a.op = "revokeProAccess"
        /\ a.jid \in DOMAIN a.pre /\ a.pre[a.jid].isPro
        /\ a.pre[a.jid].email # Null /\ a.pre[a.jid].upgradedAt # Null
        /\ DOMAIN a.pre # {a.jid}

\* C13: upgradeUserToPro(id, email) stores the email when it is a non-empty
\* string; called without an email, or with an empty one, it leaves the
\* email of the record as it was before the call.
C13_UpgradeEmail ==
  \A i \in 1..Len(calls) :
    LET a   == calls[i]
        old == IF a.jid \in DOMAIN a.pre THEN a.pre[a.jid] ELSE DefaultUser(a.jid)
    IN  a.op = "upgradeUserToPro"
        => /\ (a.email # Null /\ a.email[1] # <<>>) => a.post[a.jid].email = a.email
           /\ (a.email = Null \/ a.email[1] = <<>>) => a.post[a.jid].email = old.email

\* C13 witness: an identity with an email on record was upgraded without an
\* email, and in another call with the empty one
C13_Witness ==
  \E i, k \in 1..Len(calls) :
    /\ calls[i].op = "upgradeUserToPro" /\ calls[k].op = "upgradeUserToPro"
    /\ calls[i].email = Null /\ calls[k].email = Some(<<>>)
    /\ \A n \in {i, k} : /\ calls[n].jid \in DOMAIN calls[n].pre
                          /\ calls[n].pre[calls[n].jid].email = Some(mailAB)
                          /\ calls[n].post[calls[n].jid].email = Some(mailAB)

\* C22: in every state of the store, a record that is Pro has an upgrade date,
\* and so has a record that has an email.
C22_ProAndEmailHaveDate ==
  \A j \in DOMAIN users :
    /\ users[j].isPro => users[j].upgradedAt # Null
    /\ users[j].email # Null => users[j].upgradedAt # Null

\* C22 witness: after a seeded record, an upgrade with an email and a revoke,
\* the store holds a Pro record without an email and a Free one with an email
C22_Witness ==
  /\ \E i \in 1..Len(calls) : calls[i].op = "revokeProAccess"
  /\ \E j, k \in DOMAIN users :
       /\ users[j].isPro /\ users[j].email = Null
       /\ ~users[k].isPro /\ users[k].email # Null

\* ==================================================== properties: the router
\* the command word and arguments of the text a callback is handling
Cmd(t) == toLowerCase(t.command)
Args(t) == t.args

\* the sender was Pro / had a record when the command read the store first
WasPro(t) == t.jid \in DOMAIN t.pre /\ t.pre[t.jid].isPro
WasFree(t) == ~WasPro(t)

\* a message of the router to the sender
Reply(t, kind, body) == [to |-> t.jid, kind |-> kind, body |-> body]

HasKind(seq, kind) == \E i \in 1..Len(seq) : seq[i].kind = kind

\* the first argument is present and contains '@'
HasAt(args) == Len(args) >= 1 /\ \E i \in 1..Len(args[1]) : args[1][i] = "@"

\* C2: whenever requirePro has returned, it returned true having sent exactly
\* one payment message to the sender if the sender was not Pro when it was
\* called, and it returned false having sent nothing if the sender was Pro.
C2_GateDecision ==
  \A h \in HandlerIds :
    LET t == tasks[h]
    IN  /\ t.gate = "block" => (WasFree(t) /\ t.sent = <<Reply(t, "payment", Null)>>)
        /\ t.gate = "pass"  => (WasPro(t) /\ ~HasKind(t.sent, "payment"))
        /\ (t.pc = "gate" /\ t.gate = "pass") => t.sent = <<>>
        /\ (t.pc = "done" /\ ~t.threw /\ Cmd(t) \in {cmdPremium, cmdAdmin})
             => t.gate = (IF WasPro(t) THEN "pass" ELSE "block")

\* C2 witness: the gate has returned true to an identity that was not Pro
C2_Witness ==
  \E h \in HandlerIds :
    /\ tasks[h].pc = "done" /\ tasks[h].gate = "block"
    /\ WasFree(tasks[h]) /\ Len(tasks[h].sent) = 1

\* C3: when "/activate <email>" with a single argument containing '@' has been
\* routed for an identity that was Free and handleMessage has returned, the
\* router has sent exactly one upgrade confirmation, to that identity and naming
\* the email; the command left the identity Pro with contactEmail the argument
\* and a non-null upgradedAt; and exactly one email-notify call was made, for
\* (email, identity).
C3_ActivateFree ==
  \A h \in HandlerIds :
    LET t == tasks[h]
    IN  ( /\ t.pc = "done" /\ ~t.threw
          /\ Cmd(t) = cmdActivate /\ Len(Args(t)) = 1 /\ HasAt(Args(t))
          /\ WasFree(t) )
        => /\ t.sent = <<Reply(t, "upgraded", <<Args(t)[1]>>)>>
           /\ t.jid \in DOMAIN t.post
           /\ t.post[t.jid].isPro = TRUE
           /\ t.post[t.jid].email = Some(Args(t)[1])
           /\ t.post[t.jid].upgradedAt # Null
           /\ t.mailed = <<[to |-> Args(t)[1], jid |-> t.jid]>>

\* C3 witness: an identity without a record has activated with c@d.io
C3_Witness ==
  \E h \in HandlerIds :
    LET t == tasks[h]
    IN  /\ t.pc = "done" /\ ~t.threw
        /\ Cmd(t) = cmdActivate /\ Args(t) = <<mailCD>>
        /\ t.jid \notin DOMAIN t.pre
        /\ Len(t.mailed) = 1

\* C4: "/activate <valid email>" routed for an identity that is already Pro
\* sends exactly one "already Pro" reply, leaves the store (so that identity's
\* isPro, email and upgradedAt) as it was and makes no email-notify call.
C4_ActivateAlreadyPro ==
  \A h \in HandlerIds :
    LET t == tasks[h]
    IN  ( /\ InCommand(t)
          /\ Cmd(t) = cmdActivate /\ HasAt(Args(t))
          /\ WasPro(t) )
        => /\ t.sent = <<Reply(t, "alreadyPro", Null)>>
           /\ t.post = t.pre
           /\ t.mailed = <<>>

\* C4 witness: the identity was upgraded by an earlier /activate (it has an
\* email on record) and the repeated command is over
C4_Witness ==
  \E h \in HandlerIds :
    LET t == tasks[h]
    IN  /\ t.pc = "done" /\ Cmd(t) = cmdActivate /\ HasAt(Args(t))
        /\ WasPro(t) /\ t.pre[t.jid].email # Null
        /\ t.pre[t.jid].email # Some(Args(t)[1])

\* C5: "/activate" with no argument, or with a first argument without '@',
\* sends exactly one usage reply, leaves the whole store as it was (no record
\* is created for the sender) and makes no email-notify call.
C5_ActivateInvalid ==
  \A h \in HandlerIds :
    LET t == tasks[h]
    IN  ( /\ InCommand(t)
          /\ Cmd(t) = cmdActivate /\ ~HasAt(Args(t)) )
        => /\ t.sent = <<Reply(t, "usage", Null)>>
           /\ t.post = t.pre
           /\ t.mailed = <<>>

\* C5 witness: a sender without a record sent "/activate not-an-email"
C5_Witness ==
  \E h \in HandlerIds :
    LET t == tasks[h]
    IN  /\ t.pc = "done" /\ Cmd(t) = cmdActivate /\ Args(t) = <<wNoMail>>
        /\ t.jid \notin DOMAIN t.post

\* C6: activate upgrades only when exactly one argument is present and it
\* contains '@'; with any other number of arguments it sends a usage error and
\* leaves the store as it was.
C6_ExactlyOneArgument ==
  \A h \in HandlerIds :
    LET t == tasks[h]
    IN  (InCommand(t) /\ Cmd(t) = cmdActivate /\ Len(Args(t)) # 1)
        => /\ t.sent = <<Reply(t, "usage", Null)>>
           /\ t.post = t.pre

\* C7: a stats reply is sent only to a caller that was Pro at the gate check
\* and is ADMIN_JID; once /admin is over, a Pro caller that is not ADMIN_JID
\* was sent exactly one access-denied reply and a Free caller, ADMIN_JID
\* included, exactly the payment message.
C7_AdminTwoGates ==
  \A h \in HandlerIds :
    LET t == tasks[h]
    IN  /\ HasKind(t.sent, "stats")
           => (Cmd(t) = cmdAdmin /\ WasPro(t) /\ t.gate = "pass" /\ t.jid = ADMIN_JID)
        /\ (t.pc = "done" /\ Cmd(t) = cmdAdmin /\ WasPro(t) /\ t.jid # ADMIN_JID)
           => t.sent = <<Reply(t, "adminDenied", Null)>>
        /\ (t.pc = "done" /\ Cmd(t) = cmdAdmin /\ WasFree(t))
           => t.sent = <<Reply(t, "payment", Null)>>

\* C7 witness: a Pro identity other than ADMIN_JID has been through /admin
C7_Witness ==
  \E h \in HandlerIds :
    LET t == tasks[h]
    IN  /\ t.pc = "done" /\ Cmd(t) = cmdAdmin /\ WasPro(t) /\ t.jid # ADMIN_JID
        /\ ~t.threw

\* the store counts of a stats reply, from the store as it was when it was built
StatsOf(u) ==
  << Cardinality(DOMAIN u),
     Cardinality({j \in DOMAIN u : u[j].isPro}),
     Cardinality({j \in DOMAIN u : ~u[j].isPro}) >>

\* C8: the stats reply of /admin carries the number of records in the store at
\* that moment, the number of them that are Pro and the number that are Free,
\* and the last two add up to the first.
C8_AdminStats ==
  \A h \in HandlerIds :
    LET t == tasks[h]
    IN  (InCommand(t) /\ Cmd(t) = cmdAdmin /\ WasPro(t) /\ t.jid = ADMIN_JID
           /\ t.pc # "gate")
        => /\ t.sent = <<Reply(t, "stats", StatsOf(t.post))>>
           /\ t.sent[1].body[2] + t.sent[1].body[3] = t.sent[1].body[1]

\* C8 witness: the administrator got stats over a Pro and a Free record
C8_Witness ==
  \E h \in HandlerIds :
    LET t == tasks[h]
    IN  /\ t.pc = "done" /\ ~t.threw /\ HasKind(t.sent, "stats")
        /\ t.sent[1].body = <<2, 1, 1>>

CommandWords == {cmdStart, cmdHelp, cmdStatus, cmdPremium, cmdActivate, cmdAdmin}

\* C9: a text whose first token, lower-cased, is none of the six command words
\* gets no reply, makes no email-notify call and leaves the store as it was:
\* for every text the callback has routed, and for handleMessage applied, where
\* a callback is about to take its next message, to the texts it never routes.
C9_UnknownIgnored ==
  /\ \A h \in HandlerIds :
       LET t == tasks[h]
       IN  (InCommand(t) /\ Cmd(t) \notin CommandWords)
           => /\ t.pc = "done"
              /\ t.sent = <<>> /\ t.boundary = <<>> /\ ~t.threw
              /\ t.mailed = <<>>
              /\ t.post = t.pre
  /\ \A h \in HandlerIds, jid \in Jids, text \in UnroutedTexts :
       tasks[h].pc = "loop" =>
         LET r == handleMessage(h, jid, text)
         IN  toLowerCase(r.task.command) \notin CommandWords
             => /\ r.store = users
                /\ r.task.pc = "done"
                /\ r.task.sent = <<>> /\ r.task.mailed = <<>>

\* C9 witness: "/startx" has been routed
C9_Witness ==
  \E h \in HandlerIds :
    /\ tasks[h].pc = "done"
    /\ tasks[h].text = cmdStart \o <<"x">>

\* C11: no step of a messages.upsert callback, whatever command it is in, turns
\* a Pro record into a Free one or removes it; only revokeProAccess, which no
\* callback calls, does.
C11_CommandsNeverDowngrade ==
  [][ tasks' # tasks
      => \A j \in DOMAIN users :
           users[j].isPro => (j \in DOMAIN users' /\ users'[j].isPro) ]_vars

\* C11 witness: an identity seeded as Pro has been through /activate with a
\* valid email and is still Pro
C11_Witness ==
  \E h \in HandlerIds :
    LET t == tasks[h]
    IN  /\ t.pc = "done" /\ Cmd(t) = cmdActivate /\ HasAt(Args(t))
        /\ WasPro(t) /\ t.pre[t.jid].email = Null
        /\ users[t.jid].isPro

\* the replies that only the body of a gated command sends
BodyKinds == {"proZone", "adminDenied", "stats"}

\* C14: when the payment send of requirePro has rejected, the caller was not
\* Pro, requirePro returned neither true nor false but rejected, handleMessage
\* rejected with it, and the command sent the payment message and nothing of
\* its body.
C14_GateSendFailure ==
  \A h \in HandlerIds :
    LET t == tasks[h]
    IN  (t.failed /\ t.cont = "blocked")
        => /\ WasFree(t)
           /\ t.gate = "threw"
           /\ t.threw
           /\ t.pc \in {"errSend", "done"}
           /\ t.sent = <<Reply(t, "payment", Null)>>
           /\ \A k \in BodyKinds : ~HasKind(t.sent, k)

\* C14 witness: the payment send of /admin from the administrator, who is
\* not Pro, has rejected
C14_Witness ==
  \E h \in HandlerIds :
    LET t == tasks[h]
    IN  /\ t.failed /\ t.cont = "blocked" /\ Cmd(t) = cmdAdmin
        /\ t.jid = ADMIN_JID /\ t.pc = "done"

\* C17: a command never sends more than one message and never to anyone but
\* its sender; once a command is over with no send rejected, it has sent
\* exactly one message if its word is one of the six command words, and the
\* catch block has sent none; a command with any other word has sent none.
C17_ExactlyOneReply ==
  \A h \in HandlerIds :
    LET t == tasks[h]
    IN  /\ Len(t.sent) <= 1
        /\ \A i \in 1..Len(t.sent) : t.sent[i].to = t.jid
        /\ (t.pc = "done" /\ ~t.failed)
             => /\ t.boundary = <<>>
                /\ Len(t.sent) = (IF Cmd(t) \in CommandWords THEN 1 ELSE 0)

\* C17 witness: "/ADMIN extra" from a Pro identity that is not the
\* administrator is over, and so is no send rejected
C17_Witness ==
  \E h \in HandlerIds :
    LET t == tasks[h]
    IN  /\ t.pc = "done" /\ ~t.failed
        /\ Cmd(t) = cmdAdmin /\ Args(t) = <<wExtra>>
        /\ WasPro(t) /\ t.jid # ADMIN_JID /\ Len(t.sent) = 1

\* C18: a callback that takes the next message of its batch either hands it
\* to handleMessage, and then the message has a sender and a text that begins
\* with "/", or passes over it and goes on to the message after it, ending
\* only when it was the last of the batch: a message without the prefix does
\* not keep the messages after it from being routed.
C18_EveryCommandMessageRouted ==
  [][ \A h \in HandlerIds :
        LET t == tasks[h]
            u == tasks'[h]
        IN  (t.pc = "loop" /\ u # t)
            => \/ /\ InCommand(u) /\ u.left = t.left
                  /\ u.jid # NoJid /\ startsWith(u.text, "/")
               \/ u = NextMessage(t) ]_vars

C16_MailFailureContained ==
  [][ seen'.mailErrors > seen.mailErrors
      => /\ tasks' = tasks
         /\ users' = users
         /\ mails' = mails - 1 ]_vars

\* C16 witness: the welcome mail of an /activate that is over has been
\* rejected; the identity is Pro, the confirmation is the one message of the
\* command and the catch block did not run
C16_Witness ==
  \E h \in HandlerIds :
    LET t == tasks[h]
    IN  /\ seen.mailErrors = 1 /\ mails = 0
        /\ t.pc = "done" /\ Cmd(t) = cmdActivate /\ Len(t.mailed) = 1
        /\ t.sent = <<Reply(t, "upgraded", <<mailAB>>)>>
        /\ ~t.threw /\ t.boundary = <<>> /\ seen.caughtAt = 0
        /\ users[t.jid].isPro /\ users[t.jid].email = Some(mailAB)

\* the activations noted so far that upgraded their sender
Upgrades == {i \in 1..Len(seen.activations) : seen.activations[i].reply = "upgraded"}

\* C23: an /activate that upgrades has written the store before it makes its
\* confirmation send, and makes its email-notify call only once that send has
\* succeeded: while the send is pending, and for good when it was rejected,
\* the sender is Pro on record and no email-notify call was made for the
\* upgrade. An /activate that answers "already Pro" makes no email-notify
\* call, so that there are never more such calls than upgrades.
C23_UpgradeSendMail ==
  /\ \A h \in HandlerIds :
       LET t == tasks[h]
       IN  (InCommand(t) /\ Cmd(t) = cmdActivate)
           => /\ HasKind(t.sent, "upgraded")
                   => /\ t.jid \in DOMAIN t.post /\ t.post[t.jid].isPro
                      /\ t.post[t.jid].email = Some(Args(t)[1])
                      /\ t.pc = "send" => t.mailed = <<>>
                      /\ t.failed => t.mailed = <<>>
                      /\ t.mailed # <<>> => (t.pc = "done" /\ ~t.failed)
              /\ HasKind(t.sent, "alreadyPro") => t.mailed = <<>>
              /\ t.mailed # <<>> => HasKind(t.sent, "upgraded")
  /\ Len(seen.mailCalls) <= Cardinality(Upgrades)
  /\ \A k \in 1..Len(seen.mailCalls) :
       \E i \in Upgrades : /\ seen.activations[i].jid = seen.mailCalls[k].jid
                           /\ seen.activations[i].email = seen.mailCalls[k].to

\* C23 witness: the confirmation of the upgrade was rejected, the sender
\* repeated /activate and was told it is already Pro, and no email-notify
\* call was ever made
C23_Witness ==
  \E h \in HandlerIds :
    LET t == tasks[h]
    IN  /\ t.pc = "done" /\ ~t.failed /\ Cmd(t) = cmdActivate
        /\ t.sent = <<Reply(t, "alreadyPro", Null)>>
        /\ Len(seen.activations) = 2
        /\ seen.activations[1].reply = "upgraded" /\ seen.activations[1].upgraded
        /\ seen.activations[2].reply = "alreadyPro" /\ ~seen.activations[2].upgraded
        /\ seen.caughtAt = 1 /\ delivered = 2
        /\ seen.mailCalls = <<>> /\ mails = 0
        /\ users[t.jid].isPro /\ users[t.jid].email = Some(mailAB)

\* C20: what /premium sends depends on the store at its own gate check alone,
\* whatever requirePro decided for the identity before: for an identity that
\* is Pro then, the gate passes and the one reply is the pro-zone confirmation;
\* for any other, the one reply is the payment message.
C20_GateNotCached ==
  \A h \in HandlerIds :
    LET t == tasks[h]
    IN  (InCommand(t) /\ Cmd(t) = cmdPremium)
        => /\ WasPro(t)
                => /\ t.gate = "pass"
                   /\ t.sent = (IF t.pc = "gate" THEN <<>>
                                ELSE <<Reply(t, "proZone", Null)>>)
           /\ WasFree(t)
                => /\ t.gate \in {"pending", "block", "threw"}
                   /\ t.sent = <<Reply(t, "payment", Null)>>

\* C20 witness: the identity was denied by /premium, then activated, and its
\* next /premium has sent the pro-zone confirmation
C20_Witness ==
  \E h \in HandlerIds :
    LET t == tasks[h]
    IN  /\ t.pc = "done" /\ Cmd(t) = cmdPremium
        /\ seen.gate[t.jid] = <<"block", "pass">>
        /\ t.pre[t.jid].email = Some(mailAB)
        /\ t.sent = <<Reply(t, "proZone", Null)>>

\* ================================================= properties: the session
\* the events handled so far in which a timer for startBot was set
Restarts == {i \in 1..Len(conn.log) : conn.log[i].restart}

\* C24: the handler of a connection.update event sets a timer for startBot
\* exactly when the event is a close whose status code is not the logged-out
\* code, and ends the process exactly when it is a close with the logged-out
\* code; an open event does neither. Every startBot that ran was scheduled by
\* such a close; once the process has ended, no event is handled, no timer
\* fires and no startBot goes on.
C24_RestartIffNotLoggedOut ==
  /\ [] /\ \A i \in 1..Len(conn.log) :
            LET e == conn.log[i]
            IN  /\ e.restart <=> ( /\ e.connection = "close"
                                   /\ e.statusCode # Some(DisconnectReason.loggedOut) )
                /\ e.exit <=> ( /\ e.connection = "close"
                                /\ e.statusCode = Some(DisconnectReason.loggedOut) )
                /\ e.connection = "open" => (~e.restart /\ ~e.exit)
                /\ e.exit => (i = Len(conn.log) /\ ~conn.running)
        /\ conn.timers + conn.starting + (conn.sockets - 1) <= Cardinality(Restarts)
  /\ [][ /\ conn'.timers > conn.timers
            => /\ conn'.timers = conn.timers + 1
               /\ Len(conn'.log) = Len(conn.log) + 1
               /\ conn'.log[Len(conn'.log)].restart
         /\ ~conn.running => conn' = conn ]_vars

\* C24 witness: a close with another code set a timer, the timer fired and
\* startBot attached a second socket; an open event followed and set no timer;
\* then a close with the logged-out code ended the process
C24_Witness ==
  /\ Len(conn.log) = 3
  /\ conn.log[1].connection = "close" /\ conn.log[1].restart
  /\ conn.log[1].statusCode = Some(DisconnectReason.connectionClosed)
  /\ conn.log[2].connection = "open"
  /\ conn.log[3].connection = "close" /\ conn.log[3].exit
  /\ conn.sockets = 2 /\ conn.timers = 0 /\ ~conn.running

\* ========================================= properties: overlapping callbacks
\* C21: when /activate commands with a valid email of one identity overlap
\* and nothing revokes, the first one routed finds the identity as it was and
\* every later one finds it Pro: a command that finds it Free upgrades it and
\* sends the confirmation, a command that finds it Pro answers "already Pro"
\* and writes nothing. So at most one command upgrades, at most one
\* email-notify call is made, for the email of the upgrading command, and
\* that email is the one on record.
C21_OneUpgradeWins ==
  LET A == seen.activations
  IN  /\ \A i \in 1..Len(A) :
           /\ i > 1 => A[i].wasPro
           /\ ~A[i].wasPro => (A[i].upgraded /\ A[i].reply = "upgraded")
           /\ A[i].wasPro => (~A[i].upgraded /\ A[i].reply = "alreadyPro")
           /\ A[i].upgraded
                => /\ users[A[i].jid].isPro
                   /\ users[A[i].jid].email = Some(A[i].email)
                   /\ \A k \in 1..Len(seen.mailCalls) :
                        seen.mailCalls[k] = [to |-> A[i].email, jid |-> A[i].jid]
      /\ Cardinality(Upgrades) <= 1
      /\ Len(seen.mailCalls) <= Cardinality(Upgrades)

\* C21 witness: two /activate of a Free identity, with different emails, are
\* suspended at their reply at the same time; the first routed upgraded, the
\* second answered "already Pro", and the email on record is the first one's
C21_Witness ==
  \E h1, h2 \in HandlerIds :
    LET a == tasks[h1]
        b == tasks[h2]
    IN  /\ a.pc = "send" /\ b.pc = "send" /\ a.jid = b.jid /\ a.seq < b.seq
        /\ a.jid \notin DOMAIN a.pre
        /\ a.sent = <<Reply(a, "upgraded", <<mailCD>>)>>
        /\ b.sent = <<Reply(b, "alreadyPro", Null)>> /\ Args(b) = <<mailAB>>
        /\ Len(seen.activations) = 2
        /\ users[a.jid].email = Some(mailCD)


\* C19: replies to an identity are sent in the order in which their commands
\* were routed: when a command has made its sendMessage call, every command
\* of the same identity that was routed before it and is still in progress
\* has made its own.
C19_RepliesInRouteOrder ==
  \A h1, h2 \in HandlerIds :
    LET a == tasks[h1]
        b == tasks[h2]
    IN  ( /\ InCommand(a) /\ InCommand(b)
          /\ a.jid = b.jid /\ a.seq < b.seq
          /\ b.sent # <<>> )
        => (a.sent # <<>> \/ a.pc = "done")

====
